---- MODULE Spec2Model ----
(***************************************************************************)
(* The confetti particle engine of MakeConfetti: the cannon component      *)
(* (ConfettiCannon.tsx, mounted by the index route) and the falling        *)
(* component (WorkingFallingConfetti.tsx).  One behaviour is one mounted   *)
(* component instance; `variant` says which of the two files it runs.      *)
(*                                                                         *)
(* Particle records are JavaScript objects: they live in `heap`, and the   *)
(* pool and the active set hold references (record ids) to them.  A record *)
(* no reference reaches is garbage; its id is recycled by the next `new`.  *)
(* Math.random() is a draw u/10 with u in 0..9; the draws that decide the  *)
(* visual kind range over EmojiDraws and ShapeDraws, every other draw is 0.*)
(***************************************************************************)
EXTENDS Integers, Sequences, FiniteSets, TLC

\* ------------------------------------------------------------------ bounds
MaxAnchors == 2
MaxLifetimeBound == 3
MaxPoolFalling == 2
MaxCanvases == 3
MaxTime == 300
TimeStep == 50
MaxResizeCalls == 3

\* --------------------------------------------------------------- constants
Null == 0
Hole == 0
None == "null"

Variants == {"cannon", "falling"}
\* Math.random() in tenths: the draws tried for `Math.random() <
\* preset.emojiChance` and for `Math.random() > 0.5 ? "circle" : "rectangle"`
EmojiDraws == {0, 9}
ShapeDraws == {9}

\* The preset table (app/client/components/data/ConfettiPresets); "classic"
\* is the preset both components select by default.
ConfettiPresets ==
  [classic |-> [particleCount |-> 2, speedX |-> [min |-> 1, max |-> 3],
                size |-> [min |-> 10, max |-> 20],
                rotationSpeed |-> [min |-> 1, max |-> 5],
                gravity |-> 1, wind |-> 0, colors |-> <<"red">>,
                emojiChance |-> 5],
   gentle  |-> [particleCount |-> 1, speedX |-> [min |-> 1, max |-> 2],
                size |-> [min |-> 10, max |-> 10],
                rotationSpeed |-> [min |-> 1, max |-> 2],
                gravity |-> 1, wind |-> 0, colors |-> <<"blue">>,
                emojiChance |-> 0]]

PresetNames == DOMAIN ConfettiPresets

emojis == <<"tada">>

\* The anchor elements of the page: id |-> what getElementById and
\* getBoundingClientRect give (centre already holds the scroll offset).
\* "gone" is an id no element carries.
Elements ==
  [a    |-> [present |-> TRUE,  cx |-> 5, cy |-> 5, width |-> 2],
   b    |-> [present |-> TRUE,  cx |-> 8, cy |-> 6, width |-> 2],
   gone |-> [present |-> FALSE, cx |-> 0, cy |-> 0, width |-> 0]]

AnchorIds == DOMAIN Elements

Range(s) == {s[i] : i \in DOMAIN s}

RECURSIVE SeqsUpTo(_, _)
SeqsUpTo(S, n) ==
  IF n = 0 THEN {<<>>}
  ELSE LET shorter == SeqsUpTo(S, n - 1)
       IN shorter \cup {Append(q, x) : q \in shorter, x \in S}

\* spawnerIds props: lists of distinct ids, at most MaxAnchors long, in the
\* order the page creates them; "b" is on the page only after "a"
AnchorOrder == <<"a", "b", "gone">>
Position(id) == CHOOSE i \in DOMAIN AnchorOrder : AnchorOrder[i] = id
SpawnerLists ==
  {q \in SeqsUpTo(AnchorIds, MaxAnchors) :
     /\ \A i, j \in DOMAIN q : i < j => Position(q[i]) < Position(q[j])
     /\ "b" \in Range(q) => "a" \in Range(q)}

VARIABLES
  variant,        \* which component file this instance runs
  maxLifetime,    \* prop maxLifetime
  spawnerIds,     \* prop spawnerIds
  isClient,       \* useOnlyOnClient()
  ctx2d,          \* canvasRef.current is mounted and getContext("2d") gives a context
  showConfetti, showEmojis, selectedPreset,   \* useState
  heap,           \* the Particle objects some reference reaches, by record id
  particlesRef,   \* particlesRef.current: the active set, a list of references
  particlesPool,  \* particlesPoolForSpawner / particlesPool
  animationIdRef, \* animationIdRef.current
  timeoutIdRef,   \* timeoutIdRef.current
  frames,         \* the host's pending requestAnimationFrame callbacks
  timers,         \* the host's pending setTimeout callbacks
  surface,        \* "clear" or "drawn": what the canvas shows
  lastOp,         \* history: the handler that ran last
  thrown,         \* history: the last handler ended in an uncaught TypeError
  ticks,          \* history: ticks of animateConfetti completed since the last burst
                  \*   start; forgotten by the first handler that finds no frame pending
  wasRunning,     \* history: a frame callback was pending when the last handler began
  halted,         \* history: the safety timer has fired and no burst was started since
  placed,         \* history: the records a burst start stored in particlesRef.current,
                  \*   as they were at that assignment, with the origin asked for;
                  \*   kept while the active set is not empty
  drawCalls,      \* history: the drawParticle calls of the last handler, in order
  acquired,       \* history: what the createParticle calls of the burst start did,
                  \*   if the last handler was one
  memo,           \* WorkingFallingConfetti.tsx lastParticle, lastParticleAlpha,
                  \*   lastParticleFont, lastParticleColor of the render whose
                  \*   drawParticle the loop calls (of the latest render when no
                  \*   frame callback is pending)
  memoRender,     \* "latest": that render is the latest one; "earlier": the
                  \*   component has rendered again since, and a burst start will
                  \*   draw with the new render's own four variables
  memoized,       \* history: whether a drawParticle call of the last handler found
                  \*   the record and alpha it had stored last (same), and whether
                  \*   one returned at line 204 (early)
  emojiCache,     \* the emojiCache object the drawing closure holds: cacheKey -> canvas
  shapeCache,     \* the shapeCache object the drawing closure holds: cacheKey -> canvas
  closure,        \* "none": no burst was started yet; "current": the loop draws in
                  \*   the closure of the latest render; "stale": the component has
                  \*   rendered again since the loop's closure was created
  canvases,       \* the offscreen canvases created so far (a canvas is its number)
  returned,       \* history: what the latest lookup with these arguments returned
                  \*   in the drawing closure
  firstCached,    \* history: the canvas first cached under a key on this instance
  mounted,        \* the component is mounted
  now,            \* the host's clock, in ms
  windowWidth,    \* window.innerWidth
  canvasDimensions, \* useState canvasDimensions (its width)
  listening,      \* handleResize is registered as the window's resize listener
  resizeTimeoutId,  \* timeoutId of the Debounce closure behind handleResize
  resizeTimers,   \* the host's pending timers set by that closure, with the time due
  resizeCalls,    \* history: calls of handleResize since the last call that found
                  \*   no timer pending, that call included
  lastResizeCall, \* history: the time of the latest call of handleResize
  recomputed,     \* history: runs of the debounced function since that first call
  recomputedAt    \* history: the time of its latest run

engineVars == <<variant, maxLifetime, spawnerIds, isClient, ctx2d, showConfetti,
                showEmojis, selectedPreset, heap, particlesRef, particlesPool,
                animationIdRef, timeoutIdRef, frames, timers, surface, lastOp,
                thrown, ticks, wasRunning, halted, placed, drawCalls, acquired,
                memo, memoRender, memoized>>
cacheVars == <<emojiCache, shapeCache, closure, canvases, returned, firstCached>>
debounceVars == <<mounted, now, windowWidth, canvasDimensions, listening,
                  resizeTimeoutId, resizeTimers, resizeCalls, lastResizeCall,
                  recomputed, recomputedAt>>
vars == <<engineVars, cacheVars, debounceVars>>

\* ---------------------------------------------------------------- records
CreateEmptyParticle ==
  [x |-> 0, y |-> 0, size |-> 10, speedX |-> 0, speedY |-> 0,
   accelerationX |-> 0, accelerationY |-> 0, color |-> None, rotation |-> 0,
   rotationSpeed |-> 0, shape |-> None, emoji |-> None, lifetime |-> 0]

\* history of a handler that has called createParticle no time: the pool
\* length at the first call, the calls that popped a record, the calls that
\* constructed one, every CreateEmptyParticle() of the handler, and whether
\* each call changed nothing but the record it returned and the pool's last
\* entry
NoAcquisition ==
  [poolBefore |-> 0, recycled |-> 0, fresh |-> 0, created |-> 0,
   framed |-> TRUE]

\* lines 185-189 of WorkingFallingConfetti.tsx: every render declares the
\* four variables anew
NoMemo ==
  [lastParticle |-> Null, lastParticleAlpha |-> Null,
   lastParticleFont |-> Null, lastParticleColor |-> None]

\* history of a handler that has called drawParticle no time
NotMemoized == [same |-> FALSE, early |-> FALSE]

\* The mutable state a handler works on (w), and what its closure reads (e).
Cur ==
  [heap |-> heap, particles |-> particlesRef, pool |-> particlesPool,
   animationId |-> animationIdRef, timeoutId |-> timeoutIdRef,
   frames |-> frames, timers |-> timers, surface |-> surface,
   thrown |-> FALSE, ticks |-> ticks,
   np |-> <<>>, origins |-> <<>>, ret |-> Null, placed |-> placed,
   draws |-> <<>>, acq |-> NoAcquisition,
   memo |-> memo, memoRender |-> memoRender, memoized |-> NotMemoized]

Env ==
  [variant |-> variant, maxLifetime |-> maxLifetime, spawnerIds |-> spawnerIds,
   isClient |-> isClient, ctx2d |-> ctx2d, showConfetti |-> showConfetti,
   showEmojis |-> showEmojis, selectedPreset |-> selectedPreset]

\* `new`: the state with one more object, CreateEmptyParticle(), whose id
\* is left in w.ret.
NewEmptyParticle(w) ==
  [w EXCEPT !.heap = Append(@, CreateEmptyParticle), !.ret = Len(w.heap) + 1,
            !.acq.created = @ + 1]


\* The smallest handle the host has not handed out among `used`.
NextHandle(used) ==
  CHOOSE i \in 1..(Cardinality(used) + 1) :
    /\ i \notin used
    /\ \A j \in 1..(Cardinality(used) + 1) : j \notin used => i <= j

\* ------------------------------------------------------- particle factory
\* mutant: only the display flag decides the color, so an emoji particle
\* has a color and no shape
ConfiguredParticleColorsEmoji(e, burstX, burstY, d) ==
  LET preset == ConfettiPresets[e.selectedPreset]
      isEmoji == e.showEmojis /\ d.emoji < preset.emojiChance
  IN [x |-> burstX, y |-> burstY,
      size |-> IF isEmoji THEN 20 ELSE preset.size.min,
      speedX |-> preset.wind - preset.speedX.min, speedY |-> -10,
      accelerationX |-> -10, accelerationY |-> preset.gravity,
      color |-> IF ~e.showConfetti THEN None ELSE preset.colors[1],
      rotation |-> 0, rotationSpeed |-> preset.rotationSpeed.min,
      shape |-> IF isEmoji \/ ~e.showConfetti THEN None
                ELSE IF d.shape > 5 THEN "circle" ELSE "rectangle",
      emoji |-> IF isEmoji THEN emojis[1] ELSE None,
      lifetime |-> 0]

\* mutant: an emoji particle keeps a shape and a color
ConfiguredParticleKeepsShape(e, burstX, burstY, d) ==
  LET preset == ConfettiPresets[e.selectedPreset]
      isEmoji == e.showEmojis /\ d.emoji < preset.emojiChance
  IN [x |-> burstX, y |-> burstY, size |-> preset.size.min,
      speedX |-> preset.wind - preset.speedX.min, speedY |-> -10,
      accelerationX |-> -10, accelerationY |-> preset.gravity,
      color |-> IF ~e.showConfetti THEN None ELSE preset.colors[1],
      rotation |-> 0, rotationSpeed |-> preset.rotationSpeed.min,
      shape |-> IF ~e.showConfetti THEN None
                ELSE IF d.shape > 5 THEN "circle" ELSE "rectangle",
      emoji |-> IF isEmoji THEN emojis[1] ELSE None,
      lifetime |-> 0]

\* Lines 134-178 of createParticle (the same text in both files): every
\* field of the record is assigned.  d holds the two draws that decide the
\* visual kind; u is every other draw.
ConfiguredParticle(e, burstX, burstY, d) ==
  LET preset == ConfettiPresets[e.selectedPreset]
      u == 0
      isEmoji == e.showEmojis /\ d.emoji < preset.emojiChance
      spreadFactorX == IF u < 5 THEN -1 ELSE 1
      speedX == ((u * (preset.speedX.max - preset.speedX.min)) \div 10
                  + preset.speedX.min) * spreadFactorX + preset.wind
      speedY == (u * (-15)) \div 10 - 10
  IN [x |-> burstX,
      y |-> burstY,
      size |-> IF isEmoji THEN (u * 20) \div 10 + 20
               ELSE (u * (preset.size.max - preset.size.min)) \div 10
                    + preset.size.min,
      speedX |-> speedX,
      speedY |-> speedY,
      accelerationX |-> (u - 5) * 2,        \* in hundredths: (random - 0.5) * 0.2
      accelerationY |-> preset.gravity,
      color |-> IF isEmoji \/ ~e.showConfetti THEN None
                ELSE preset.colors[(u * Len(preset.colors)) \div 10 + 1],
      rotation |-> (u * 360) \div 10,
      rotationSpeed |-> (u * (preset.rotationSpeed.max - preset.rotationSpeed.min)) \div 10
                        + preset.rotationSpeed.min,
      shape |-> IF isEmoji \/ ~e.showConfetti THEN None
                ELSE IF d.shape > 5 THEN "circle" ELSE "rectangle",
      emoji |-> IF isEmoji THEN emojis[(u * Len(emojis)) \div 10 + 1] ELSE None,
      lifetime |-> 0]

VisualDraws == [emoji : EmojiDraws, shape : ShapeDraws]

\* mutant: the pool gives its oldest entry (shift instead of pop)
ShiftOrCreate(w) ==
  IF Len(w.pool) > 0
  THEN [w EXCEPT !.ret = w.pool[1],
                 !.pool = SubSeq(w.pool, 2, Len(w.pool)),
                 !.acq.recycled = @ + 1]
  ELSE [NewEmptyParticle(w) EXCEPT !.acq.fresh = @ + 1]

\* particlesPool.pop() || CreateEmptyParticle(): the state after it, with
\* the record in w.ret.
PopOrCreate(w) ==
  IF Len(w.pool) > 0
  THEN [w EXCEPT !.ret = w.pool[Len(w.pool)],
                 !.pool = SubSeq(w.pool, 1, Len(w.pool) - 1),
                 !.acq.recycled = @ + 1]
  ELSE [NewEmptyParticle(w) EXCEPT !.acq.fresh = @ + 1]

\* ConfettiCannon.tsx createParticle: the set of states a call can end in
\* (one per outcome of its draws); the record returned is w.ret.
createParticleCannon(w, e, burstX, burstY) ==
  LET w1 == PopOrCreate(w)
      particle == w1.heap[w1.ret]
  IN IF particle.x # 0 /\ particle.y # 0
     THEN {w1}
     ELSE {[w1 EXCEPT !.heap[w1.ret] = ConfiguredParticle(e, burstX, burstY, d),
                      !.pool = Append(w1.pool, w1.ret)] : d \in VisualDraws}

\* WorkingFallingConfetti.tsx createParticle
createParticleFalling(w, e, burstX, burstY) ==
  LET w1 == PopOrCreate(w)
      particle == w1.heap[w1.ret]
  IN IF particle.x # 0 /\ particle.y # 0
     THEN {w1}
     ELSE {[w1 EXCEPT !.heap[w1.ret] = ConfiguredParticle(e, burstX, burstY, d)]
             : d \in VisualDraws}

createParticle(w, e, burstX, burstY) ==
  IF e.variant = "cannon" THEN createParticleCannon(w, e, burstX, burstY)
  ELSE createParticleFalling(w, e, burstX, burstY)

\* history: a createParticle call that led from w to v has taken the last
\* entry out of the pool (if there was one) and has changed no field of a
\* record other than the one it returns; the active set is as it was
OnlyPopulates(w, v) ==
  /\ v.pool = (IF Len(w.pool) > 0 THEN SubSeq(w.pool, 1, Len(w.pool) - 1) ELSE <<>>)
  /\ v.particles = w.particles
  /\ \A id \in DOMAIN w.heap : id # v.ret => v.heap[id] = w.heap[id]

\* newParticles[particleIndex] = createParticle(...); particleIndex++, for
\* each origin of `calls` in turn, from each state of W.
RECURSIVE createAll(_, _, _, _)
createAll(W, e, calls, i) ==
  IF i > Len(calls) THEN W
  ELSE createAll(
         UNION {{[v EXCEPT !.np = Append(@, v.ret),
                           !.origins = Append(@, calls[i]),
                           !.acq.poolBefore = IF i = 1 THEN Len(w.pool) ELSE @,
                           !.acq.framed = @ /\ OnlyPopulates(w, v),
                           !.ret = Null]
                  : v \in createParticle(w, e, calls[i].x, calls[i].y)} : w \in W},
         e, calls, i + 1)

\* history: what `particlesRef.current = newParticles` stores, slot by slot
Snapshot(w) ==
  [i \in 1..Len(w.np) |->
     [p |-> w.heap[w.np[i]], ox |-> w.origins[i].x, oy |-> w.origins[i].y]]

\* ------------------------------------------------------------------- stop
\* mutant: animationIdRef is reset but cancelAnimationFrame is not called
stopConfettiKeepsFrame(w, e) ==
  LET w2 == IF w.timeoutId # Null
            THEN [w EXCEPT !.timers = {t \in w.timers : t.id # w.timeoutId},
                           !.timeoutId = Null]
            ELSE w
      w3 == [w2 EXCEPT !.particles = <<>>, !.animationId = Null]
  IN IF e.ctx2d THEN [w3 EXCEPT !.surface = "clear"] ELSE w3

\* mutant: timeoutIdRef is reset but clearTimeout is not called
stopConfettiKeepsTimer(w, e) ==
  LET w1 == IF w.animationId # Null
            THEN [w EXCEPT !.frames = {f \in w.frames : f.id # w.animationId},
                           !.animationId = Null]
            ELSE w
      w3 == [w1 EXCEPT !.particles = <<>>, !.timeoutId = Null]
  IN IF e.ctx2d THEN [w3 EXCEPT !.surface = "clear"] ELSE w3

\* mutant: the active set is left as it is
stopConfettiKeepsParticles(w, e) ==
  LET w1 == IF w.animationId # Null
            THEN [w EXCEPT !.frames = {f \in w.frames : f.id # w.animationId},
                           !.animationId = Null]
            ELSE w
      w2 == IF w1.timeoutId # Null
            THEN [w1 EXCEPT !.timers = {t \in w1.timers : t.id # w1.timeoutId},
                            !.timeoutId = Null]
            ELSE w1
  IN IF e.ctx2d THEN [w2 EXCEPT !.surface = "clear"] ELSE w2

\* stopConfetti (the same text in both files)
stopConfetti(w, e) ==
  LET w1 == IF w.animationId # Null
            THEN [w EXCEPT !.frames = {f \in w.frames : f.id # w.animationId},
                           !.animationId = Null]
            ELSE w
      w2 == IF w1.timeoutId # Null
            THEN [w1 EXCEPT !.timers = {t \in w1.timers : t.id # w1.timeoutId},
                            !.timeoutId = Null]
            ELSE w1
      w3 == [w2 EXCEPT !.particles = <<>>]
  IN IF e.ctx2d THEN [w3 EXCEPT !.surface = "clear"] ELSE w3

\* ------------------------------------------------------------------- draw
\* mutant: the fade is computed for the tick after this one
alphaOfNextTick(particle, e) == e.maxLifetime - (particle.lifetime + 1)

\* const alpha = 1 - lifetime / maxLifetime, as the numerator of the
\* fraction over maxLifetime: alpha = (maxLifetime - lifetime) / maxLifetime
alpha(particle, e) == e.maxLifetime - particle.lifetime

\* history: one drawParticle call, with ctx.globalAlpha (times maxLifetime)
\* and the angle (in degrees) given to ctx.rotate
DrawCall(particle, e) ==
  [alpha |-> alpha(particle, e), angle |-> particle.rotation,
   lifetime |-> particle.lifetime]

\* ConfettiCannon.tsx drawParticle (rotateOnZ = true, its default)
drawParticleCannon(w, e, id) ==
  LET particle == w.heap[id]
      w1 == [w EXCEPT !.heap[id].rotation = @ + particle.rotationSpeed,
                      !.draws = Append(@, DrawCall(particle, e))]
  IN IF particle.emoji # None \/ particle.shape # None
     THEN [w1 EXCEPT !.surface = "drawn"]
     ELSE w1

\* `${particle.size}px Arial`: the font string is the size it is built from
fontOf(particle) == particle.size

\* mutant: the early return looks at the record and its color only
sameRecordAndColor(m, id, particle, e) ==
  /\ m.lastParticle = id
  /\ m.lastParticleColor = particle.color

\* WorkingFallingConfetti.tsx drawParticle, the test of lines 196-201
sameAsLastDrawn(m, id, particle, e) ==
  /\ m.lastParticle = id
  /\ m.lastParticleAlpha = alpha(particle, e)
  /\ m.lastParticleFont = fontOf(particle)
  /\ m.lastParticleColor = particle.color

\* WorkingFallingConfetti.tsx drawParticle: the early return of lines
\* 202-204 (fillText without translate and rotate), or the full draw, which
\* stores the font on the emoji branch (line 217) and the record, alpha and
\* color at its end (lines 239-241)
drawParticleFalling(w, e, id) ==
  LET particle == w.heap[id]
      m == w.memo
      w0 == [w EXCEPT !.memoized.same =
                         @ \/ (/\ m.lastParticle = id
                               /\ m.lastParticleAlpha = alpha(particle, e))]
  IN IF sameAsLastDrawn(m, id, particle, e)
     THEN [w0 EXCEPT !.memoized.early = TRUE, !.surface = "drawn",
                     !.draws = Append(@, [DrawCall(particle, e)
                                            EXCEPT !.angle = Null])]
     ELSE LET w1 == [w0 EXCEPT
                       !.draws = Append(@, DrawCall(particle, e)),
                       !.memo = [lastParticle |-> id,
                                 lastParticleAlpha |-> alpha(particle, e),
                                 lastParticleFont |->
                                   IF particle.emoji # None THEN fontOf(particle)
                                   ELSE m.lastParticleFont,
                                 lastParticleColor |-> particle.color]]
          IN IF particle.emoji # None \/ particle.shape # None
             THEN [w1 EXCEPT !.surface = "drawn"]
             ELSE w1

\* ------------------------------------------------------------------- tick
\* Math.cos / Math.sin of a right angle, times m
CosTimes(angle, m) ==
  IF angle = 0 THEN m ELSE IF angle = 180 THEN -m ELSE 0
SinTimes(angle, m) ==
  IF angle = 90 THEN m ELSE IF angle = 270 THEN -m ELSE 0

\* mutant: the angle offsets are added whatever the angle
stepCannonAlwaysOffset(particle, angle, reverseX, reverseY, speedMagnitude) ==
  LET finalXSpeed == particle.speedX + CosTimes(angle, speedMagnitude)
      finalYSpeed == particle.speedY + SinTimes(angle, speedMagnitude)
  IN [particle EXCEPT
        !.y = @ + (IF reverseY THEN -finalYSpeed ELSE finalYSpeed),
        !.x = @ + (IF reverseX THEN -finalXSpeed ELSE finalXSpeed),
        !.speedY = @ + particle.accelerationY,
        !.lifetime = @ + 1]

\* ConfettiCannon.tsx animateConfetti, lines 213-227: one particle's step
stepCannon(particle, angle, reverseX, reverseY, speedMagnitude) ==
  LET speedOffsetX == CosTimes(angle, speedMagnitude)
      speedOffsetY == SinTimes(angle, speedMagnitude)
      finalXSpeed == IF angle = 0 \/ angle = 180 THEN particle.speedX
                     ELSE particle.speedX + speedOffsetX
      finalYSpeed == IF angle = 90 \/ angle = 270 THEN particle.speedY
                     ELSE particle.speedY + speedOffsetY
  IN [particle EXCEPT
        !.y = @ + (IF reverseY THEN -finalYSpeed ELSE finalYSpeed),
        !.x = @ + (IF reverseX THEN -finalXSpeed ELSE finalXSpeed),
        !.speedY = @ + particle.accelerationY,
        !.lifetime = @ + 1]

\* WorkingFallingConfetti.tsx animateConfetti, lines 162-165
stepFalling(particle) ==
  [particle EXCEPT !.x = @ + particle.speedX,
                   !.y = @ + particle.speedY,
                   !.speedY = @ + particle.accelerationY,
                   !.lifetime = @ + 1]

\* mutant: the test written with <=
survivesOffByOne(particle, e) == particle.lifetime <= e.maxLifetime

\* the survival test of both loops: particle.lifetime < maxLifetime
survives(particle, e) == particle.lifetime < e.maxLifetime

\* The for loop of ConfettiCannon.tsx animateConfetti from slot i on.  A
\* slot new Array() left unfilled reads as undefined, and particle.speedX
\* then throws a TypeError: the loop ends there, w.thrown set.
RECURSIVE loopCannon(_, _, _, _)
loopCannon(w, e, i, aliveParticles) ==
  IF i > Len(w.particles) THEN [w |-> w, alive |-> aliveParticles]
  ELSE IF w.particles[i] = Hole
  THEN [w |-> [w EXCEPT !.thrown = TRUE], alive |-> aliveParticles]
  ELSE LET id == w.particles[i]
           w1 == [w EXCEPT !.heap[id] = stepCannon(w.heap[id], 0, FALSE, FALSE, 5)]
       IN IF survives(w1.heap[id], e)
          THEN loopCannon(drawParticleCannon(w1, e, id), e, i + 1,
                          Append(aliveParticles, id))
          ELSE loopCannon(w1, e, i + 1, aliveParticles)

RECURSIVE loopFalling(_, _, _, _)
loopFalling(w, e, i, aliveParticles) ==
  IF i > Len(w.particles) THEN [w |-> w, alive |-> aliveParticles]
  ELSE LET id == w.particles[i]
           w1 == [w EXCEPT !.heap[id] = stepFalling(w.heap[id])]
       IN IF survives(w1.heap[id], e)
          THEN loopFalling(drawParticleFalling(w1, e, id), e, i + 1,
                           Append(aliveParticles, id))
          ELSE loopFalling(w1, e, i + 1, aliveParticles)

\* animationIdRef.current = requestAnimationFrame(...)
scheduleFrame(w) ==
  LET id == NextHandle({f.id : f \in w.frames} \cup {w.animationId})
  IN [w EXCEPT !.frames = @ \cup {[id |-> id, old |-> FALSE]},
               !.animationId = id]

\* mutant: the loop does not call stopConfetti when no particle survives
animateConfettiWithoutStop(w, e) ==
  IF ~e.isClient \/ ~e.ctx2d THEN w
  ELSE LET w0 == [w EXCEPT !.surface = "clear"]
           r == IF e.variant = "cannon" THEN loopCannon(w0, e, 1, <<>>)
                ELSE loopFalling(w0, e, 1, <<>>)
       IN IF r.w.thrown THEN r.w
          ELSE LET w1 == [r.w EXCEPT !.particles = r.alive, !.ticks = @ + 1]
               IN IF Len(w1.particles) > 0 THEN scheduleFrame(w1)
                  ELSE w1

\* animateConfetti of either file
animateConfetti(w, e) ==
  IF ~e.isClient \/ ~e.ctx2d THEN w
  ELSE LET w0 == [w EXCEPT !.surface = "clear"]
           r == IF e.variant = "cannon" THEN loopCannon(w0, e, 1, <<>>)
                ELSE loopFalling(w0, e, 1, <<>>)
       IN IF r.w.thrown THEN r.w
          ELSE LET w1 == [r.w EXCEPT !.particles = r.alive, !.ticks = @ + 1]
               IN IF Len(w1.particles) > 0 THEN scheduleFrame(w1)
                  ELSE stopConfetti(w1, e)


\* ------------------------------------------------------- burst controller
RECURSIVE Repeat(_, _)
Repeat(x, n) == IF n = 0 THEN <<>> ELSE <<x>> \o Repeat(x, n - 1)

\* while (pool.length < totalParticles) pool.push(CreateEmptyParticle())
RECURSIVE growPool(_, _)
growPool(w, totalParticles) ==
  IF Len(w.pool) >= totalParticles THEN w
  ELSE LET w1 == NewEmptyParticle(w)
       IN growPool([w1 EXCEPT !.pool = Append(@, w1.ret), !.ret = Null],
                   totalParticles)

\* ConfettiCannon.tsx initializeParticles, lines 439-457: the origins of the
\* createParticle calls, particleCount per id that resolves to an element
RECURSIVE callsCannon(_, _, _)
callsCannon(ids, i, particleCount) ==
  IF i > Len(ids) THEN <<>>
  ELSE LET targetElement == Elements[ids[i]]
           burstX == targetElement.cx
           burstY == targetElement.cy
           origin == [x |-> IF burstX # 0 THEN burstX
                            ELSE (0 * targetElement.width) \div 10,
                      y |-> IF burstY # 0 THEN burstY ELSE 0]
       IN (IF targetElement.present THEN Repeat(origin, particleCount) ELSE <<>>)
          \o callsCannon(ids, i + 1, particleCount)

\* ConfettiCannon.tsx initializeParticles
initializeParticles(w, e) ==
  LET w0 == stopConfetti(w, e)
      preset == ConfettiPresets[e.selectedPreset]
      totalParticles == preset.particleCount * Len(e.spawnerIds)
      w1 == growPool(w0, totalParticles)
      length == preset.particleCount
                * (IF Len(e.spawnerIds) # 0 THEN Len(e.spawnerIds) ELSE 1)
      calls == callsCannon(e.spawnerIds, 1, preset.particleCount)
  IN {[v EXCEPT !.particles = v.np \o Repeat(Hole, length - Len(v.np)),
                !.placed = Snapshot(v),
                !.np = <<>>, !.origins = <<>>]
        : v \in createAll({w1}, e, calls, 1)}

\* timeoutIdRef.current = window.setTimeout(stopConfetti, 10000), after
\* if (timeoutIdRef.current) clearTimeout(timeoutIdRef.current)
armSafetyTimer(w) ==
  LET cleared == IF w.timeoutId # Null
                 THEN {t \in w.timers : t.id # w.timeoutId} ELSE w.timers
      id == NextHandle({t.id : t \in cleared} \cup {w.timeoutId})
  IN [w EXCEPT !.timers = cleared \cup {[id |-> id, old |-> FALSE]},
               !.timeoutId = id]

\* the rest of a start handler once particlesRef.current is set: the first
\* tick, run synchronously, then the safety timer (not reached if the tick threw)
runBurst(w, e) ==
  LET w1 == animateConfetti(w, e)
  IN IF w1.thrown THEN w1 ELSE armSafetyTimer(w1)

\* ConfettiCannon.tsx startCannonAtFindMe
startCannonAtFindMeCannon(w, e) ==
  IF ~e.isClient THEN {w}
  ELSE {runBurst(v, e) : v \in initializeParticles(w, e)}

\* WorkingFallingConfetti.tsx startCannonAtFindMe, lines 251-274: the
\* origins of the createParticle calls, over the elements that exist
RECURSIVE callsFalling(_, _, _)
callsFalling(ids, i, particleCount) ==
  IF i > Len(ids) THEN <<>>
  ELSE LET targetElement == Elements[ids[i]]
           origin == [x |-> targetElement.cx, y |-> targetElement.cy]
       IN (IF targetElement.present THEN Repeat(origin, particleCount) ELSE <<>>)
          \o callsFalling(ids, i + 1, particleCount)

\* WorkingFallingConfetti.tsx startCannonAtFindMe
startCannonAtFindMeFalling(w, e) ==
  IF ~e.isClient THEN {w}
  ELSE LET w0 == stopConfetti(w, e)
           preset == ConfettiPresets[e.selectedPreset]
           calls == callsFalling(e.spawnerIds, 1, preset.particleCount)
       IN {runBurst([v EXCEPT !.particles = v.np, !.placed = Snapshot(v),
                              !.np = <<>>, !.origins = <<>>], e)
             : v \in createAll({w0}, e, calls, 1)}

\* Math.random() * canvasDimensions.width, in the units of the anchors
FallXs == {4}

\* WorkingFallingConfetti.tsx startFallingConfetti
startFallingConfetti(w, e) ==
  IF ~e.isClient THEN {w}
  ELSE LET w0 == stopConfetti(w, e)
           preset == ConfettiPresets[e.selectedPreset]
       IN UNION {
            {runBurst([v EXCEPT !.particles = v.np, !.placed = Snapshot(v),
                                !.np = <<>>, !.origins = <<>>], e)
               : v \in createAll({w0}, e, calls, 1)}
            : calls \in [1..preset.particleCount -> {[x |-> fx, y |-> 0] : fx \in FallXs}]}

\* ConfettiCannon.tsx, the effect of lines 503-519.  Its dependencies
\* (initializeParticles, hence createParticle's selectedPreset, showEmojis
\* and showConfetti) change with every toggle and every preset selection.
reinitializeEffect(w, e) ==
  IF Len(e.spawnerIds) > 0
     /\ Len(w.pool) >= ConfettiPresets[e.selectedPreset].particleCount
  THEN initializeParticles(w, e)
  ELSE {w}

\* WorkingFallingConfetti.tsx, the effect of lines 340-345
RECURSIVE prefillPool(_, _)
prefillPool(w, n) ==
  IF n = 0 THEN w
  ELSE LET w1 == NewEmptyParticle(w)
       IN prefillPool([w1 EXCEPT !.pool = Append(@, w1.ret), !.ret = Null], n - 1)

\* what a re-render with the state of e runs after commit
renderEffects(w, e, presetChanged) ==
  IF e.variant = "cannon" THEN reinitializeEffect(w, e)
  ELSE IF presetChanged
       THEN {prefillPool(w, ConfettiPresets[e.selectedPreset].particleCount)}
       ELSE {w}

\* ---------------------------------------------------------------- actions
\* history: callbacks pending when a burst is started belong to an earlier burst
MarkOld(w) ==
  [w EXCEPT !.frames = {[f EXCEPT !.old = TRUE] : f \in w.frames},
            !.timers = {[t EXCEPT !.old = TRUE] : t \in w.timers},
            !.ticks = 0]

\* the component renders again: the handlers of the new render draw with
\* their own four variables, a loop that is running keeps those of its render
NewRender(w) ==
  IF w.memo = NoMemo THEN w
  ELSE IF w.frames = {} THEN [w EXCEPT !.memo = NoMemo]
  ELSE [w EXCEPT !.memoRender = "earlier"]

\* a click runs the handler of the latest render
LatestRender(w) ==
  IF w.memoRender = "earlier"
  THEN [w EXCEPT !.memo = NoMemo, !.memoRender = "latest"]
  ELSE w

\* the record lastParticle names once no reference but that one reaches it
Unreachable == -1

StartOps == {"startCannon", "startFalling"}

\* Object identity is identity up to renaming: a state names its records in
\* the order the active set and then the pool reach them, and a record
\* neither reaches is garbage.
RECURSIVE FirstSeen(_, _)
FirstSeen(q, seen) ==
  IF q = <<>> THEN seen
  ELSE IF Head(q) = Hole \/ Head(q) \in Range(seen) THEN FirstSeen(Tail(q), seen)
  ELSE FirstSeen(Tail(q), Append(seen, Head(q)))

Commit(w, op) ==
  /\ LET order == FirstSeen(w.particles \o w.pool, <<>>)
         name(id) == IF id = Hole THEN Hole
                     ELSE CHOOSE k \in DOMAIN order : order[k] = id
     IN /\ heap' = [k \in DOMAIN order |-> w.heap[order[k]]]
        /\ particlesRef' = [i \in DOMAIN w.particles |-> name(w.particles[i])]
        /\ particlesPool' = [i \in DOMAIN w.pool |-> name(w.pool[i])]
           \* no loop is left to call the drawParticle of an earlier render
        /\ memo' = IF w.memoRender = "earlier" /\ w.frames = {} THEN NoMemo
                   ELSE IF w.memo.lastParticle \in Range(order)
                   THEN [w.memo EXCEPT !.lastParticle = name(@)]
                   ELSE IF w.memo.lastParticle = Null THEN w.memo
                   ELSE [w.memo EXCEPT !.lastParticle = Unreachable]
  /\ memoRender' = IF w.frames = {} THEN "latest" ELSE w.memoRender
  /\ memoized' = w.memoized
  /\ animationIdRef' = w.animationId
  /\ timeoutIdRef' = w.timeoutId
  /\ frames' = w.frames
  /\ timers' = w.timers
  /\ surface' = w.surface
  /\ thrown' = w.thrown
  /\ ticks' = IF frames = {} /\ op \notin StartOps THEN 0 ELSE w.ticks
  /\ placed' = IF op \in StartOps \/ w.particles # <<>> THEN w.placed ELSE <<>>
  /\ drawCalls' = w.draws
  /\ acquired' = IF op \in StartOps THEN w.acq ELSE NoAcquisition
  /\ lastOp' = op
  /\ wasRunning' = (frames # {})
  /\ halted' = IF op = "timeout" THEN TRUE
               ELSE IF op \in StartOps /\ isClient THEN FALSE
               ELSE halted
  /\ UNCHANGED <<cacheVars, debounceVars>>

Props == <<variant, maxLifetime, spawnerIds>>
Flags == <<showConfetti, showEmojis, selectedPreset>>

\* ----------------------------------------------------------- render cache
\* ConfettiCannon.tsx drawParticle passes its default increment, 10
DefaultIncrement == 10

\* what drawParticle can ask the caches for: emoji particles (size in
\* 20..40) and shape particles (size from the preset)
EmojiArgs ==
  {[kind |-> "emoji", name |-> emojis[1], size |-> z, color |-> None]
     : z \in {24, 25}}
ShapeArgs ==
  {[kind |-> "shape", name |-> "circle", size |-> z, color |-> "red"]
     : z \in {11, 14, 15}}
  \cup {[kind |-> "shape", name |-> "rectangle", size |-> 14, color |-> "red"],
        [kind |-> "shape", name |-> "circle", size |-> 14, color |-> "blue"]}
CacheArgs == EmojiArgs \cup ShapeArgs

\* mutant: the size is rounded down
roundDownToSize(size, increment) == (size \div increment) * increment

\* Math.round(size / increment) * increment; Math.round(x) is floor(x + 1/2)
roundToNearestSize(size, increment) ==
  ((2 * size + increment) \div (2 * increment)) * increment

\* `${emoji}-${roundedSize}`
emojiCacheKey(emoji, size, increment) ==
  <<emoji, roundToNearestSize(size, increment)>>

\* `${shape}-${roundedSize}-${color}`
shapeCacheKey(shape, size, color, increment) ==
  <<shape, roundToNearestSize(size, increment), color>>

\* getCachedEmoji / getCachedShape on the cache object `cache` under
\* cacheKey, with `count` canvases created so far: the cached canvas, or a
\* new canvas that is cached (document.createElement gives a canvas whose
\* 2D context exists whenever the visible canvas has one)
getCached(cache, cacheKey, count) ==
  IF cacheKey \in DOMAIN cache
  THEN [cache |-> cache, ret |-> cache[cacheKey], count |-> count]
  ELSE [cache |-> cache @@ (cacheKey :> count + 1), ret |-> count + 1,
        count |-> count + 1]

getCachedEmoji(cache, emoji, size, increment, count) ==
  getCached(cache, emojiCacheKey(emoji, size, increment), count)

getCachedShape(cache, shape, size, color, increment, count) ==
  getCached(cache, shapeCacheKey(shape, size, color, increment), count)

\* the key a lookup with arguments a uses, tagged with its cache
KeyOf(a) ==
  IF a.kind = "emoji"
  THEN <<"emoji", emojiCacheKey(a.name, a.size, DefaultIncrement)>>
  ELSE <<"shape", shapeCacheKey(a.name, a.size, a.color, DefaultIncrement)>>
CacheKeys == {KeyOf(a) : a \in CacheArgs}

\* lines 254-255: both caches are object literals of the component body
InitCaches ==
  /\ emojiCache = <<>>
  /\ shapeCache = <<>>
  /\ closure = "none"
  /\ canvases = 0
  /\ returned = [a \in CacheArgs |-> Null]
  /\ firstCached = [k \in CacheKeys |-> Null]

\* ------------------------------------------------------ resize debouncing
\* ConfettiCanvas.tsx line 53 (WorkingFallingConfetti.tsx line 357)
DebounceDelay == 100

WindowWidths == {800, 1024}

\* mutant: the pending timer is not cleared
DebounceWithoutClear(pending, timeoutId, time) ==
  LET id == NextHandle({t.id : t \in pending} \cup {timeoutId})
  IN [timers |-> pending \cup {[id |-> id, due |-> time + DebounceDelay]},
      timeoutId |-> id]

\* Debounce.tsx: one call of the function Debounce(func, delay) returns, at
\* `time`, with the timers `pending` and `timeoutId` the closure's variable
Debounce(pending, timeoutId, time) ==
  LET cleared == IF timeoutId # Null
                 THEN {t \in pending : t.id # timeoutId} ELSE pending
      id == NextHandle({t.id : t \in cleared} \cup {timeoutId})
  IN [timers |-> cleared \cup {[id |-> id, due |-> time + DebounceDelay]},
      timeoutId |-> id]

InitDebounce ==
  /\ mounted = TRUE
  /\ now = 0
  /\ windowWidth = 800
  /\ canvasDimensions = 0
  /\ listening = FALSE
  /\ resizeTimeoutId = Null
  /\ resizeTimers = {}
  /\ resizeCalls = 0
  /\ lastResizeCall = 0
  /\ recomputed = 0
  /\ recomputedAt = 0

Init ==
  /\ InitCaches
  /\ InitDebounce
  /\ variant \in Variants
  /\ maxLifetime \in 2..MaxLifetimeBound
  /\ spawnerIds \in SpawnerLists
  /\ isClient = FALSE
  /\ ctx2d = FALSE
  /\ showConfetti = TRUE
  /\ showEmojis = TRUE
  /\ selectedPreset = "classic"
  /\ particlesRef = <<>>
     \* the falling component's mount effect pre-fills its pool
  /\ particlesPool = IF variant = "falling"
                     THEN [i \in 1..ConfettiPresets["classic"].particleCount |-> i]
                     ELSE <<>>
  /\ heap = [i \in DOMAIN particlesPool |-> CreateEmptyParticle]
  /\ animationIdRef = Null
  /\ timeoutIdRef = Null
  /\ frames = {}
  /\ timers = {}
  /\ surface = "clear"
  /\ lastOp = "mount"
  /\ thrown = FALSE
  /\ ticks = 0
  /\ placed = <<>>
  /\ drawCalls = <<>>
  /\ acquired = NoAcquisition
  /\ memo = NoMemo
  /\ memoRender = "latest"
  /\ memoized = NotMemoized
  /\ wasRunning = FALSE
  /\ halted = FALSE

\* useOnlyOnClient turns true after mount; the canvas is rendered with it,
\* or not yet (or the browser gives no 2D context)
ClientReady ==
  /\ ~isClient
  /\ isClient' = TRUE
  /\ ctx2d' \in BOOLEAN
  /\ Commit(NewRender(Cur), "other")
  /\ UNCHANGED <<Props, Flags>>

\* the canvas element is attached to canvasRef and gives its 2D context
\* (getContext keeps returning the context it has once given)
CanvasReady ==
  /\ isClient
  /\ ~ctx2d
  /\ ctx2d' = TRUE
  /\ Commit(Cur, "other")
  /\ UNCHANGED <<Props, Flags, isClient>>

\* onClick of "Start Cannon at Move Me!"
StartCannonAtFindMe ==
  /\ \E w \in (IF variant = "cannon"
               THEN startCannonAtFindMeCannon(LatestRender(MarkOld(Cur)), Env)
               ELSE startCannonAtFindMeFalling(LatestRender(MarkOld(Cur)), Env)) :
       Commit(w, "startCannon")
  /\ UNCHANGED <<Props, Flags, isClient, ctx2d>>

\* onClick of "Start Falling Confetti"
StartFallingConfetti ==
  /\ variant = "falling"
  /\ \E w \in startFallingConfetti(LatestRender(MarkOld(Cur)), Env) : Commit(w, "startFalling")
  /\ UNCHANGED <<Props, Flags, isClient, ctx2d>>

\* the host runs a pending requestAnimationFrame callback
FrameCallback ==
  /\ \E f \in frames :
       Commit(animateConfetti([Cur EXCEPT !.frames = @ \ {f}], Env), "frame")
  /\ UNCHANGED <<Props, Flags, isClient, ctx2d>>

\* the host runs a pending setTimeout callback: stopConfetti
SafetyTimeout ==
  /\ \E t \in timers :
       Commit(stopConfetti([Cur EXCEPT !.timers = @ \ {t}], Env), "timeout")
  /\ UNCHANGED <<Props, Flags, isClient, ctx2d>>

\* onChange of the "Show Regular Confetti" checkbox
ToggleShowConfetti ==
  /\ showConfetti' = ~showConfetti
  /\ \E w \in renderEffects(NewRender(Cur), [Env EXCEPT !.showConfetti = ~showConfetti], FALSE) :
       Commit(w, "other")
  /\ UNCHANGED <<Props, showEmojis, selectedPreset, isClient, ctx2d>>

\* onChange of the "Show Emojis" checkbox
ToggleShowEmojis ==
  /\ showEmojis' = ~showEmojis
  /\ \E w \in renderEffects(NewRender(Cur), [Env EXCEPT !.showEmojis = ~showEmojis], FALSE) :
       Commit(w, "other")
  /\ UNCHANGED <<Props, showConfetti, selectedPreset, isClient, ctx2d>>

\* onChange of the preset select
SelectPreset ==
  /\ \E name \in PresetNames \ {selectedPreset} :
       /\ variant = "falling"
            => Len(particlesPool) + ConfettiPresets[name].particleCount <= MaxPoolFalling
       /\ selectedPreset' = name
       /\ \E w \in renderEffects(NewRender(Cur), [Env EXCEPT !.selectedPreset = name], TRUE) :
            Commit(w, "other")
  /\ UNCHANGED <<Props, showConfetti, showEmojis, isClient, ctx2d>>

Next ==
  \/ ClientReady
  \/ CanvasReady
  \/ StartCannonAtFindMe
  \/ StartFallingConfetti
  \/ FrameCallback
  \/ SafetyTimeout
  \/ ToggleShowConfetti
  \/ ToggleShowEmojis
  \/ SelectPreset

Spec == Init /\ [][Next]_vars

\* ------------------------------------------- the render cache on its own
\* The caches of one mounted cannon component, with the particle engine
\* left where mounting puts it: what the draw calls of its ticks ask the
\* caches for is drawn from CacheArgs.
InitCacheSpec ==
  /\ Init
  /\ variant = "cannon"
  /\ maxLifetime = 2
  /\ spawnerIds = <<"a">>

\* the component renders again (a state change of its own or of its
\* parent): the component body creates new, empty emojiCache and shapeCache
\* objects; a loop already running keeps drawing in its own closure
Rerender ==
  /\ closure' = IF closure = "none" THEN "none" ELSE "stale"
  /\ UNCHANGED <<engineVars, debounceVars, emojiCache, shapeCache, canvases, returned,
                 firstCached>>

\* startCannonAtFindMe of the latest render: from now on the ticks draw in
\* the closure of that render, with its caches
StartInLatestRender ==
  /\ closure' = "current"
  /\ IF closure = "stale"
     THEN /\ emojiCache' = <<>>
          /\ shapeCache' = <<>>
          /\ returned' = [a \in CacheArgs |-> Null]
     ELSE UNCHANGED <<emojiCache, shapeCache, returned>>
  /\ UNCHANGED <<engineVars, debounceVars, canvases, firstCached>>

Remember(k, ret) ==
  IF firstCached[k] = Null THEN [firstCached EXCEPT ![k] = ret] ELSE firstCached

\* drawParticle, lines 390-401: an emoji particle is drawn
DrawEmoji ==
  \E a \in EmojiArgs :
    LET r == getCachedEmoji(emojiCache, a.name, a.size, DefaultIncrement, canvases)
    IN /\ closure # "none"
       /\ r.count <= MaxCanvases
       /\ emojiCache' = r.cache
       /\ canvases' = r.count
       /\ returned' = [returned EXCEPT ![a] = r.ret]
       /\ firstCached' = Remember(KeyOf(a), r.ret)
       /\ UNCHANGED <<engineVars, debounceVars, shapeCache, closure>>

\* drawParticle, lines 403-415: a shape particle is drawn
DrawShape ==
  \E a \in ShapeArgs :
    LET r == getCachedShape(shapeCache, a.name, a.size, a.color,
                            DefaultIncrement, canvases)
    IN /\ closure # "none"
       /\ r.count <= MaxCanvases
       /\ shapeCache' = r.cache
       /\ canvases' = r.count
       /\ returned' = [returned EXCEPT ![a] = r.ret]
       /\ firstCached' = Remember(KeyOf(a), r.ret)
       /\ UNCHANGED <<engineVars, debounceVars, emojiCache, closure>>

NextCache ==
  \/ Rerender
  \/ StartInLatestRender
  \/ DrawEmoji
  \/ DrawShape

SpecCache == InitCacheSpec /\ [][NextCache]_vars


\* ------------------------------------ resize debouncing and unmount alone
\* The resize handling of one component instance (ConfettiCanvas.tsx for
\* the cannon component), the particle engine left where mounting puts it.
\* The host runs a timer when it is due.
InitDebounceSpec ==
  /\ Init
  /\ variant = "cannon"
  /\ maxLifetime = 2
  /\ spawnerIds = <<"a">>

\* one call of handleResize
handleResize ==
  LET d == Debounce(resizeTimers, resizeTimeoutId, now)
  IN /\ resizeTimers' = d.timers
     /\ resizeTimeoutId' = d.timeoutId
     /\ lastResizeCall' = now
     /\ IF resizeTimers = {}
        THEN resizeCalls' = 1 /\ recomputed' = 0
        ELSE resizeCalls' = resizeCalls + 1 /\ UNCHANGED recomputed

\* ConfettiCanvas.tsx lines 46-63, the effect run once isClient is true:
\* it makes handleResize, calls it once and registers it
ResizeEffect ==
  /\ mounted /\ ~isClient
  /\ isClient' = TRUE
  /\ listening' = TRUE
  /\ handleResize
  /\ UNCHANGED <<variant, maxLifetime, spawnerIds, ctx2d, showConfetti,
                 showEmojis, selectedPreset, heap, particlesRef, particlesPool,
                 animationIdRef, timeoutIdRef, frames, timers, surface, lastOp,
                 thrown, ticks, wasRunning, halted, placed, drawCalls,
                 acquired, memo, memoRender, memoized>>
  /\ UNCHANGED <<cacheVars, mounted, now, windowWidth, canvasDimensions,
                 recomputedAt>>

\* the window is resized and the listener runs
WindowResize ==
  /\ listening
  /\ resizeTimers # {} => resizeCalls < MaxResizeCalls
  /\ windowWidth' \in WindowWidths
  /\ handleResize
  /\ UNCHANGED <<engineVars, cacheVars, mounted, now, canvasDimensions,
                 listening, recomputedAt>>

\* time passes, up to the next time a timer is due
TimePasses ==
  /\ now < MaxTime
  /\ \A t \in resizeTimers : t.due > now
  /\ LET limit == now + TimeStep
         dues == {t.due : t \in resizeTimers}
     IN now' = IF \E due \in dues : due < limit
               THEN CHOOSE due \in dues : \A other \in dues : due <= other
               ELSE limit
  /\ UNCHANGED <<engineVars, cacheVars, mounted, windowWidth, canvasDimensions,
                 listening, resizeTimeoutId, resizeTimers, resizeCalls,
                 lastResizeCall, recomputed, recomputedAt>>

\* a timer of the Debounce closure is due: func() runs, setCanvasDimensions
\* (a state update of an unmounted component is dropped by React)
ResizeTimerFires ==
  /\ \E t \in resizeTimers :
       /\ t.due <= now
       /\ resizeTimers' = resizeTimers \ {t}
  /\ canvasDimensions' = IF mounted THEN windowWidth ELSE canvasDimensions
  /\ recomputed' = recomputed + 1
  /\ recomputedAt' = now
  /\ UNCHANGED <<engineVars, cacheVars, mounted, now, windowWidth, listening,
                 resizeTimeoutId, resizeCalls, lastResizeCall>>

\* the component is unmounted: the cleanup of the resize effect (lines
\* 60-62) removes the listener; no other effect has a cleanup
Unmount ==
  /\ mounted
  /\ mounted' = FALSE
  /\ listening' = FALSE
  /\ UNCHANGED <<engineVars, cacheVars, now, windowWidth, canvasDimensions,
                 resizeTimeoutId, resizeTimers, resizeCalls, lastResizeCall,
                 recomputed, recomputedAt>>

NextDebounce ==
  \/ ResizeEffect
  \/ WindowResize
  \/ TimePasses
  \/ ResizeTimerFires
  \/ Unmount

SpecDebounce == InitDebounceSpec /\ [][NextDebounce]_vars

\* ----------------------------------------------------------------- claims
Resolvable(ids) == {i \in DOMAIN ids : Elements[ids[i]].present}
AllResolve == Resolvable(spawnerIds) = DOMAIN spawnerIds

\* the particles of the active set
LiveRecords == Range(particlesRef) \ {Hole}
Live == {heap[id] : id \in LiveRecords}

\* what the burst start that ran last was asked for
Requested ==
  IF lastOp = "startFalling"
  THEN ConfettiPresets[selectedPreset].particleCount
  ELSE ConfettiPresets[selectedPreset].particleCount
       * Cardinality(Resolvable(spawnerIds))

BurstStarted == lastOp \in StartOps /\ isClient

\* C1: immediately after a burst is started (on a canvas, from one or more
\* anchors that all resolve, or as a falling burst), the active set holds
\* exactly the requested number of live particles: particleCount per anchor
\* for an anchor burst, particleCount for a falling burst (maxLifetime > 1
\* in every state of the model).
C1_ActiveSetHoldsRequestedCount ==
  (BurstStarted /\ ctx2d /\ AllResolve /\ Requested >= 1)
    => /\ Len(particlesRef) = Requested
       /\ Cardinality(LiveRecords) = Requested

\* C1 holds of the falling component
C1_FallingHoldsRequestedCount ==
  variant = "falling" => C1_ActiveSetHoldsRequestedCount

C1_FallingBurstStarted ==
  /\ variant = "falling" /\ BurstStarted /\ ctx2d
  /\ Len(spawnerIds) = 2 /\ AllResolve /\ lastOp = "startCannon"
  /\ Len(particlesRef) = 4


TickRan == lastOp \in StartOps \cup {"frame"} /\ isClient /\ ctx2d /\ ~thrown

\* C2: after every tick of animateConfetti each particle still in the
\* active set has lifetime < maxLifetime (a particle leaves the active set
\* at the tick where its lifetime becomes >= maxLifetime).
C2_SurvivorsBelowMaxLifetime ==
  TickRan => \A particle \in Live : particle.lifetime < maxLifetime

\* C3: the active set is empty once maxLifetime ticks of animateConfetti
\* have run since the burst was started (the start's synchronous tick is the
\* first), and once the safety timer has fired.
C3_EmptyAfterMaxLifetimeTicks ==
  /\ (TickRan /\ ticks >= maxLifetime) => particlesRef = <<>>
  /\ lastOp = "timeout" => particlesRef = <<>>

C3_BurstRanToMaxLifetime ==
  /\ lastOp = "frame" /\ wasRunning
  /\ ticks = maxLifetime /\ maxLifetime = 3
  /\ particlesRef = <<>> /\ frames = {}

\* C4: once the safety timer has fired the active set is empty, and from
\* then until the next burst start no frame callback is pending and no tick
\* runs, whatever lifetime the particles had left.
C4_SafetyTimerForcesStop ==
  /\ lastOp = "timeout" => particlesRef = <<>>
  /\ halted => (frames = {} /\ lastOp # "frame")

C4_TimerCutRunningBurst ==
  /\ lastOp = "timeout" /\ wasRunning
  /\ ticks >= 1 /\ ticks < maxLifetime
  /\ halted

\* C5: at most one frame callback and at most one safety timer are pending,
\* they are the ones animationIdRef and timeoutIdRef name, and none was
\* scheduled by a burst earlier than the one started last.
C5_OneBurstAtATime ==
  /\ Cardinality(frames) <= 1
  /\ Cardinality(timers) <= 1
  /\ \A f \in frames : ~f.old /\ f.id = animationIdRef
  /\ \A t \in timers : ~t.old /\ t.id = timeoutIdRef

C5_BurstStartedOverRunningBurst ==
  /\ BurstStarted /\ wasRunning
  /\ frames # {} /\ timers # {}

\* C6: every particle a burst start places in the active set has been reset
\* for this burst: lifetime 0, position one of this burst's spawn origins,
\* visual kind configured from the preset and the display flags current at
\* this burst, also when the record comes recycled from the pool.
C6_PlacedParticlesAreReset ==
  BurstStarted =>
    \A i \in DOMAIN placed :
      LET particle == placed[i].p
      IN /\ particle.lifetime = 0
         /\ \E j \in DOMAIN placed :
               particle.x = placed[j].ox /\ particle.y = placed[j].oy
         /\ ~showEmojis => particle.emoji = None
         /\ ~showConfetti => (particle.shape = None /\ particle.color = None)
         /\ particle.color # None
              => particle.color \in Range(ConfettiPresets[selectedPreset].colors)

\* C7: from every reachable state stopConfetti leaves no frame callback and
\* no safety timer pending and the active set empty, and a second call
\* changes nothing.
C7_StopCancelsAndIsIdempotent ==
  LET stopped == stopConfetti(Cur, Env)
  IN /\ stopped.frames = {}
     /\ stopped.timers = {}
     /\ stopped.particles = <<>>
     /\ stopped.animationId = Null
     /\ stopped.timeoutId = Null
     /\ stopConfetti(stopped, Env) = stopped

C7_StopActedOnRunningBurst ==
  /\ lastOp = "timeout" /\ wasRunning
  /\ particlesRef = <<>> /\ frames = {} /\ timers = {}
  /\ animationIdRef = Null /\ timeoutIdRef = Null

\* C8: toggling confetti display, toggling emoji display or selecting a
\* preset while a burst is running leaves the active set, the fields of its
\* particles, the pending frame callback and the pending safety timer
\* unchanged.
C8_UiChangesLeaveRunningBurst ==
  [][(<<showConfetti, showEmojis, selectedPreset>>'
        # <<showConfetti, showEmojis, selectedPreset>> /\ frames # {})
      => /\ particlesRef' = particlesRef
         /\ \A i \in DOMAIN particlesRef :
               heap'[particlesRef'[i]] = heap[particlesRef[i]]
         /\ frames' = frames
         /\ timers' = timers]_vars

ExactlyOneVisual(particle) ==
  \/ particle.emoji = None /\ particle.shape # None /\ particle.color # None
  \/ particle.emoji # None /\ particle.shape = None /\ particle.color = None

NoVisual(particle) ==
  particle.emoji = None /\ particle.shape = None /\ particle.color = None

Visual(particle) == <<particle.shape, particle.color, particle.emoji>>

\* one record of the active set after the tick's integration step, and
\* after the tick's draw call
Stepped(id) ==
  IF variant = "cannon" THEN stepCannon(heap[id], 0, FALSE, FALSE, 5)
  ELSE stepFalling(heap[id])
Drawn(id) ==
  IF variant = "cannon" THEN drawParticleCannon(Cur, Env, id).heap[id]
  ELSE drawParticleFalling(Cur, Env, id).heap[id]

\* C9 as claimed: every particle of the active set has exactly one visual
\* representation, shape and color with emoji null or emoji with shape and
\* color null, never both and never neither.
C9_ExactlyOneVisual ==
  \A particle \in Live : ExactlyOneVisual(particle)

\* C9 as amended: every particle of the active set has at most one visual
\* representation: shape and color with emoji null, or emoji with shape and
\* color null, or none of the three; and createParticle configures a record
\* with none of the three exactly when confetti display is disabled and no
\* emoji is chosen; the tick's integration step and draw call leave shape,
\* color and emoji as they are.
C9_AtMostOneVisual ==
  /\ \A particle \in Live : ExactlyOneVisual(particle) \/ NoVisual(particle)
  /\ \A id \in LiveRecords :
       /\ Visual(Stepped(id)) = Visual(heap[id])
       /\ Visual(Drawn(id)) = Visual(heap[id])
  /\ \A sc, se \in BOOLEAN, name \in PresetNames, d \in VisualDraws :
       LET e == [Env EXCEPT !.showConfetti = sc, !.showEmojis = se,
                            !.selectedPreset = name]
           particle == ConfiguredParticle(e, 5, 5, d)
           isEmoji == se /\ d.emoji < ConfettiPresets[name].emojiChance
       IN /\ ExactlyOneVisual(particle) \/ NoVisual(particle)
          /\ NoVisual(particle) <=> (~sc /\ ~isEmoji)

C9_ParticleWithoutVisualIsLive ==
  /\ lastOp = "frame"
  /\ \E particle \in Live : NoVisual(particle) /\ particle.lifetime >= 2
  /\ \E particle \in Live : particle.emoji # None

\* C10: no handler throws.
C10_NoHandlerThrows == ~thrown

SomeMissing == Resolvable(spawnerIds) # DOMAIN spawnerIds

\* C11: when some anchor ids resolve to no element, a burst start by
\* startCannonAtFindMe does not throw, and the loop runs on an active set of
\* exactly particleCount x (number of resolvable anchors) particle records,
\* none of them an unfilled slot.
C11_MissingAnchorIsSkipped ==
  (BurstStarted /\ lastOp = "startCannon" /\ SomeMissing)
    => /\ ~thrown
       /\ Hole \notin Range(particlesRef)
       /\ Len(particlesRef) = Requested
       /\ Cardinality(LiveRecords) = Requested

\* C12: right after a burst start with an empty anchor list the active set
\* is empty, no frame callback is pending and nothing was thrown.
C12_EmptyAnchorListStops ==
  (BurstStarted /\ lastOp = "startCannon" /\ spawnerIds = <<>>)
    => /\ particlesRef = <<>>
       /\ frames = {}
       /\ ~thrown

\* C13: after a burst request made while the canvas or its 2D context is
\* unavailable no burst is active: the active set is empty and no frame
\* callback is pending (stated for requests whose anchors all resolve).
C13_NoContextSkipsBurst ==
  (BurstStarted /\ ~ctx2d /\ AllResolve /\ Requested >= 1)
    => (particlesRef = <<>> /\ frames = {})

\* the multiple of the increment nearest to size, the upper one of two
NearestMultiple(size, increment) ==
  CHOOSE m \in 0..(size + increment) :
    /\ m % increment = 0
    /\ 2 * m - increment <= 2 * size
    /\ 2 * size < 2 * m + increment

SameBucketedKey(a, b) ==
  /\ a.kind = b.kind
  /\ a.name = b.name
  /\ NearestMultiple(a.size, DefaultIncrement) = NearestMultiple(b.size, DefaultIncrement)
  /\ a.color = b.color

Looked == {a \in CacheArgs : returned[a] # Null}

\* C14: of the lookups made in one drawing closure, two return the same
\* canvas exactly when their arguments have the same kind, the same size
\* rounded to the nearest multiple of the increment (10) and the same
\* color; every returned canvas is the entry cached under the lookup's key.
C14_CacheKeyedByBucket ==
  /\ \A a, b \in Looked : SameBucketedKey(a, b) <=> returned[a] = returned[b]
  /\ \A a \in Looked :
       returned[a] = (IF a.kind = "emoji" THEN emojiCache ELSE shapeCache)[KeyOf(a)[2]]

C14_SameAndDifferentBuckets ==
  \E a, b, c \in Looked :
    /\ a.kind = "shape" /\ a.size = 11
    /\ b.kind = "shape" /\ b.size = 14 /\ b.name = a.name /\ b.color = a.color
    /\ c.kind = "shape" /\ c.size = 15 /\ c.name = a.name /\ c.color = a.color
    /\ returned[a] = returned[b]
    /\ returned[c] # returned[a]
    /\ \E d \in Looked : d.kind = "emoji"

\* C15: every lookup on this mounted instance returns the canvas that was
\* first cached under its key, whatever renders and burst starts came
\* between.
C15_CacheEntryNeverLost ==
  \A a \in Looked : returned[a] = firstCached[KeyOf(a)]

\* C16: of the calls of the debounced resize handler made while its timer
\* is pending, N >= 1 with the first, none but the last leads to a
\* recomputation: until the timer is due exactly one timer is pending, due
\* one delay (100 ms) after the last call, and no recomputation has
\* happened; once it has run there has been exactly one recomputation, one
\* delay after the last call.
C16_OneRecomputationAfterLastCall ==
  resizeCalls >= 1 =>
    \/ /\ recomputed = 0
       /\ resizeTimers = {[id |-> resizeTimeoutId,
                           due |-> lastResizeCall + DebounceDelay]}
       /\ now <= lastResizeCall + DebounceDelay
    \/ /\ recomputed = 1
       /\ resizeTimers = {}
       /\ recomputedAt = lastResizeCall + DebounceDelay

C16_ThreeCallsOneRecomputation ==
  /\ resizeCalls = 3
  /\ recomputed = 1
  /\ lastResizeCall = 2 * TimeStep
  /\ recomputedAt = lastResizeCall + DebounceDelay
  /\ mounted /\ canvasDimensions = windowWidth

\* C17: once the component is unmounted no frame callback, no safety timer
\* and no debounced resize timer of the instance is pending.
C17_UnmountCleansUp ==
  ~mounted => (frames = {} /\ timers = {} /\ resizeTimers = {})

\* C18: after a tick of animateConfetti that leaves particles in the active
\* set exactly one frame callback is pending, the one animationIdRef names;
\* after a tick that leaves none no frame callback is pending, the surface
\* is clear and, when the tick was run by a frame callback, no safety timer
\* is pending (a start handler arms its timer after its own first tick).
C18_TickSchedulesOrStops ==
  TickRan =>
    IF particlesRef # <<>>
    THEN /\ frames = {[id |-> animationIdRef, old |-> FALSE]}
         /\ animationIdRef # Null
    ELSE /\ frames = {}
         /\ animationIdRef = Null
         /\ surface = "clear"
         /\ lastOp = "frame" => (timers = {} /\ timeoutIdRef = Null)

C18_LastTickStoppedLoop ==
  /\ lastOp = "frame" /\ wasRunning /\ isClient /\ ctx2d
  /\ particlesRef = <<>> /\ frames = {} /\ timers = {}
  /\ ticks >= 2

\* C19: a started burst retires itself when the host runs what is pending:
\* as long as the active set of a started burst is not empty, a frame
\* callback or the safety timer is pending.
C19_StartedBurstCanRetire ==
  (BurstStarted /\ particlesRef # <<>>) => (frames # {} \/ timers # {})

\* C20: k completed ticks after a burst start every particle of the active
\* set has been integrated exactly k times from its spawn values: lifetime
\* k, speedY = v0 + k*g and y = y0 + k*v0 + g*k*(k-1)/2, for the spawn
\* values y0, v0, g of one of the records the start placed.
C20_TickIntegratesOnce ==
  TickRan =>
    \A particle \in Live :
      /\ particle.lifetime = ticks
      /\ \E j \in DOMAIN placed :
           LET spawn == placed[j].p
           IN /\ particle.speedY = spawn.speedY + ticks * spawn.accelerationY
              /\ particle.y = spawn.y + ticks * spawn.speedY
                              + (spawn.accelerationY * ticks * (ticks - 1)) \div 2
              /\ particle.x = spawn.x + ticks * spawn.speedX

\* C21: every tick advances speedX by accelerationX as it advances speedY by
\* accelerationY: a particle of the active set that has been integrated n
\* times since it was placed has speedX = spawn speedX + n * accelerationX
\* (accelerationX is kept in hundredths), so with accelerationX # 0 its
\* horizontal speed is not the one it was spawned with.
C21_HorizontalAccelerationApplied ==
  TickRan =>
    \A particle \in Live :
      \E j \in DOMAIN placed :
        LET spawn == placed[j].p
            n == particle.lifetime - spawn.lifetime
        IN /\ particle.speedY = spawn.speedY + n * spawn.accelerationY
           /\ 100 * particle.speedX = 100 * spawn.speedX + n * spawn.accelerationX

\* C22: the alpha of a draw is 1 - lifetime/maxLifetime; it decreases
\* strictly with the tick's integration step, it is <= 0 exactly for the
\* records the survival test drops, and every draw call of a handler is
\* made with 0 < alpha < 1 (as numerators over maxLifetime: 0 < maxLifetime
\* - lifetime < maxLifetime).
C22_DrawnAlphaInsideUnitInterval ==
  /\ \A i \in DOMAIN drawCalls :
       /\ drawCalls[i].alpha = maxLifetime - drawCalls[i].lifetime
       /\ 0 < drawCalls[i].alpha
       /\ drawCalls[i].alpha < maxLifetime
  /\ \A id \in LiveRecords : alpha(Stepped(id), Env) < alpha(heap[id], Env)
  /\ \A id \in DOMAIN heap : alpha(heap[id], Env) <= 0 <=> ~survives(heap[id], Env)

C22_LastDrawBeforeExpiry ==
  /\ lastOp = "frame" /\ variant = "falling" /\ maxLifetime = 3
  /\ Len(drawCalls) >= 2
  /\ \A i \in DOMAIN drawCalls : drawCalls[i].alpha = 1 /\ drawCalls[i].lifetime = 2

\* C23: of the records a burst start stores as its active set, none has an
\* emoji if emoji display is disabled at that start, and none has a shape
\* or a color if confetti display is disabled at that start (right after
\* the start the display flags are still the ones it read).
C23_BurstRespectsDisplayFlags ==
  BurstStarted =>
    \A i \in DOMAIN placed :
      /\ ~showEmojis => placed[i].p.emoji = None
      /\ ~showConfetti => (placed[i].p.shape = None /\ placed[i].p.color = None)

\* C24: when a burst start makes its first createParticle call the pool
\* holds at least as many records as the burst creates particles
\* (particleCount per anchor that resolves, particleCount for a falling
\* burst), and no createParticle call of the burst finds the pool empty and
\* constructs a record.
C24_PoolPreGrownForBurst ==
  BurstStarted =>
    /\ Requested >= 1 => acquired.poolBefore >= Requested
    /\ acquired.fresh = 0

\* C25: a burst start that follows a burst start by the same handler, with
\* the same preset and the same anchors, constructs no particle record: no
\* call of CreateEmptyParticle is made, by createParticle or by the growing
\* of the pool.
C25_RepeatedBurstAllocatesNothing ==
  [][(BurstStarted /\ lastOp' = lastOp /\ selectedPreset' = selectedPreset)
       => acquired'.created = 0]_vars

ZeroValued(particle) ==
  /\ particle.x = 0 /\ particle.y = 0
  /\ particle.speedX = 0 /\ particle.speedY = 0
  /\ particle.accelerationX = 0 /\ particle.accelerationY = 0
  /\ particle.rotation = 0 /\ particle.rotationSpeed = 0
  /\ particle.lifetime = 0
  /\ NoVisual(particle)

Min(a, b) == IF a < b THEN a ELSE b

C27_CreateParticleOnlyPopulates ==
  BurstStarted => acquired.framed

\* C28: k completed ticks after a burst start every particle of the active
\* set (it was drawn on each of them) has rotation = spawn rotation + k *
\* rotationSpeed, and the draw calls of the k-th tick were made with the
\* angle before that advance, spawn rotation + (k - 1) * rotationSpeed.
C28_DrawRotatesThenAdvances ==
  TickRan =>
    /\ \A particle \in Live :
         \E j \in DOMAIN placed :
           particle.rotation
             = placed[j].p.rotation + ticks * placed[j].p.rotationSpeed
    /\ \A i \in DOMAIN drawCalls :
         \E j \in DOMAIN placed :
           drawCalls[i].angle
             = placed[j].p.rotation + (ticks - 1) * placed[j].p.rotationSpeed

\* what a tick integrates of a particle
Kinematics(particle) ==
  [x |-> particle.x, y |-> particle.y, speedX |-> particle.speedX,
   speedY |-> particle.speedY, lifetime |-> particle.lifetime]

\* what the claim compares after a tick: the surviving set slot by slot,
\* whether the loop goes on, and the safety timer
TickView(w) ==
  [particles |-> [i \in DOMAIN w.particles |-> Kinematics(w.heap[w.particles[i]])],
   running |-> w.frames # {},
   animationId |-> w.animationId,
   timers |-> w.timers,
   surface |-> w.surface]

\* the views after each of up to n ticks of animateConfetti from w, a tick
\* being run as long as the tick before has scheduled one
RECURSIVE TicksFrom(_, _, _)
TicksFrom(w, e, n) ==
  IF n = 0 THEN <<>>
  ELSE LET w1 == animateConfetti([w EXCEPT !.frames = {}], e)
       IN <<TickView(w1)>>
          \o (IF w1.frames = {} THEN <<>> ELSE TicksFrom(w1, e, n - 1))

AsCannon == [Env EXCEPT !.variant = "cannon"]
AsFalling == [Env EXCEPT !.variant = "falling"]

\* C29: from every reachable active set (without unfilled slots) and
\* maxLifetime, the ticks of the cannon's animateConfetti (angle 0, no axis
\* reversal) and the ticks of the falling component's animateConfetti give,
\* tick for tick, the same positions, speeds and lifetimes, the same
\* surviving slots, and they stop at the same tick.
C29_VariantsTickAlike ==
  Hole \notin Range(particlesRef) =>
    TicksFrom(Cur, AsCannon, MaxLifetimeBound) = TicksFrom(Cur, AsFalling, MaxLifetimeBound)

C29_TwoTicksThenStop ==
  /\ isClient /\ ctx2d /\ frames # {}
  /\ Hole \notin Range(particlesRef)
  /\ Cardinality(LiveRecords) >= 2
  /\ LET r == TicksFrom(Cur, AsCannon, MaxLifetimeBound)
     IN /\ Len(r) = 2
        /\ r[1].running /\ Len(r[1].particles) >= 2
        /\ ~r[2].running /\ r[2].particles = <<>>
        /\ r = TicksFrom(Cur, AsFalling, MaxLifetimeBound)

\* C30: right after a burst start and after every later tick the filled
\* slots of the active set hold pairwise distinct records, and no record of
\* the active set is an entry of the pool.
C30_ActiveSetOwnsItsRecords ==
  (lastOp \in StartOps \cup {"frame"} /\ isClient) =>
    /\ \A i, j \in DOMAIN particlesRef :
         (i # j /\ particlesRef[i] # Hole) => particlesRef[i] # particlesRef[j]
    /\ LiveRecords \cap Range(particlesPool) = {}

\* C31: whenever no frame callback is pending (between handlers no tick is
\* executing) the active set is empty.
C31_StoppedLoopHoldsNoParticles ==
  frames = {} => particlesRef = <<>>

\* C32: whenever the safety timer is pending a frame callback is pending.
C32_TimerOnlyWhileRunning ==
  timers # {} => frames # {}

\* C33: in every particle record (active, pooled, or just constructed) shape
\* is non-null exactly when color is non-null, so the shape branch of
\* drawParticle never reads a null color; createParticle configures the two
\* fields together whatever the flags, the preset and the draws are.
ShapeIffColor(particle) == (particle.shape # None) <=> (particle.color # None)

C33_ShapeIffColor ==
  /\ \A id \in DOMAIN heap : ShapeIffColor(heap[id])
  /\ ShapeIffColor(CreateEmptyParticle)
  /\ \A sc, se \in BOOLEAN, name \in PresetNames, d \in VisualDraws :
       ShapeIffColor(ConfiguredParticle(
         [Env EXCEPT !.showConfetti = sc, !.showEmojis = se,
                     !.selectedPreset = name], 5, 5, d))

C33_ShapeAndEmojiParticlesDrawn ==
  /\ TickRan /\ lastOp = "frame"
  /\ \E particle \in Live : particle.shape # None /\ particle.color # None
  /\ \E particle \in Live : particle.emoji # None /\ particle.color = None
  /\ \E id \in DOMAIN heap : heap[id] = CreateEmptyParticle

\* C34: in the falling component no drawParticle call returns early: at
\* every call the record differs from the one stored last or its alpha
\* differs from the alpha stored last.
C34_EarlyReturnNeverTaken ==
  (variant = "falling" /\ drawCalls # <<>>)
    => ~memoized.same /\ ~memoized.early

\* a record alone in the active set is drawn on two ticks in a row by the
\* same render's drawParticle
C34_SameRecordDrawnAgain ==
  /\ variant = "falling" /\ lastOp = "frame" /\ wasRunning
  /\ Len(drawCalls) = 1 /\ drawCalls[1].lifetime = 2
  /\ particlesRef = <<memo.lastParticle>>
  /\ memo.lastParticleAlpha = drawCalls[1].alpha
  /\ memo.lastParticleColor = heap[particlesRef[1]].color
  /\ memoRender = "latest"

====
